---- MODULE Spec2Model ----
(***************************************************************************)
(* SimpleHash256 (hash_function.py): a Merkle-Damgard hash over a custom   *)
(* compression function, with an incremental update/digest/reset API.      *)
(*                                                                         *)
(* Python integers are unbounded and signed.  A Python int n is modelled   *)
(* as a record [lo, hi, top] with n = lo + hi*2^16 + top*2^32, lo and hi   *)
(* in 0..65535 and top any (signed) integer: two's complement with the     *)
(* sign carried by top.  A 32-bit word is an int whose top is 0.           *)
(***************************************************************************)
EXTENDS Integers, Sequences, TLC

(***************************************************************************)
(* Bitwise operators of Python on naturals, then on signed integers.       *)
(***************************************************************************)
RECURSIVE NatAnd(_, _)
NatAnd(a, b) ==
    IF a = 0 \/ b = 0 THEN 0
    ELSE (a % 2) * (b % 2) + 2 * NatAnd(a \div 2, b \div 2)

RECURSIVE NatOr(_, _)
NatOr(a, b) ==
    IF a = 0 THEN b
    ELSE IF b = 0 THEN a
    ELSE (IF a % 2 = 1 \/ b % 2 = 1 THEN 1 ELSE 0) + 2 * NatOr(a \div 2, b \div 2)

RECURSIVE NatXor(_, _)
NatXor(a, b) ==
    IF a = 0 THEN b
    ELSE IF b = 0 THEN a
    ELSE ((a + b) % 2) + 2 * NatXor(a \div 2, b \div 2)

\* ~a on a signed integer
IntNot(a) == -a - 1

IntAnd(a, b) ==
    IF a >= 0 /\ b >= 0 THEN NatAnd(a, b)
    ELSE IF a < 0 /\ b >= 0 THEN b - NatAnd(b, IntNot(a))
    ELSE IF a >= 0 /\ b < 0 THEN a - NatAnd(a, IntNot(b))
    ELSE IntNot(NatOr(IntNot(a), IntNot(b)))

IntOr(a, b) ==
    IF a >= 0 /\ b >= 0 THEN NatOr(a, b)
    ELSE IF a < 0 /\ b >= 0 THEN IntNot(IntNot(a) - NatAnd(IntNot(a), b))
    ELSE IF a >= 0 /\ b < 0 THEN IntNot(IntNot(b) - NatAnd(IntNot(b), a))
    ELSE IntNot(NatAnd(IntNot(a), IntNot(b)))

IntXor(a, b) ==
    IF a >= 0 /\ b >= 0 THEN NatXor(a, b)
    ELSE IF a < 0 /\ b >= 0 THEN IntNot(NatXor(IntNot(a), b))
    ELSE IF a >= 0 /\ b < 0 THEN IntNot(NatXor(a, IntNot(b)))
    ELSE NatXor(IntNot(a), IntNot(b))

\* The three operators on a pair of bytes x, y, tabulated as sequences
\* (entry x*256 + y + 1).
AndTab == [i \in 1..65536 |-> NatAnd((i - 1) \div 256, (i - 1) % 256)] \o << >>
OrTab  == [i \in 1..65536 |-> NatOr((i - 1) \div 256, (i - 1) % 256)] \o << >>
XorTab == [i \in 1..65536 |-> NatXor((i - 1) \div 256, (i - 1) % 256)] \o << >>

\* The three operators on 16-bit values, a byte at a time.
And16(x, y) ==
    AndTab[(x \div 256) * 256 + (y \div 256) + 1] * 256
        + AndTab[(x % 256) * 256 + (y % 256) + 1]
Or16(x, y) ==
    OrTab[(x \div 256) * 256 + (y \div 256) + 1] * 256
        + OrTab[(x % 256) * 256 + (y % 256) + 1]
Xor16(x, y) ==
    XorTab[(x \div 256) * 256 + (y \div 256) + 1] * 256
        + XorTab[(x % 256) * 256 + (y % 256) + 1]

(***************************************************************************)
(* Python int arithmetic on the [lo, hi, top] representation.              *)
(***************************************************************************)
\* the int hi*2^16 + lo, written as its two 16-bit halves
W(h, l) == [lo |-> l, hi |-> h, top |-> 0]

\* a small natural n < 2^16 * 2^15 as a Python int
PyInt(n) == [lo |-> n % 65536, hi |-> n \div 65536, top |-> 0]

\* 0xFFFFFFFF
MASK32 == W(\hFFFF, \hFFFF)

PyAnd(x, y) == [lo |-> And16(x.lo, y.lo), hi |-> And16(x.hi, y.hi),
                top |-> IntAnd(x.top, y.top)]
PyOr(x, y)  == [lo |-> Or16(x.lo, y.lo), hi |-> Or16(x.hi, y.hi),
                top |-> IntOr(x.top, y.top)]
PyXor(x, y) == [lo |-> Xor16(x.lo, y.lo), hi |-> Xor16(x.hi, y.hi),
                top |-> IntXor(x.top, y.top)]
PyNot(x)    == [lo |-> 65535 - x.lo, hi |-> 65535 - x.hi, top |-> IntNot(x.top)]

PyAdd(x, y) ==
    [lo  |-> (x.lo + y.lo) % 65536,
     hi  |-> (x.hi + y.hi + ((x.lo + y.lo) \div 65536)) % 65536,
     top |-> x.top + y.top + ((x.hi + y.hi + ((x.lo + y.lo) \div 65536)) \div 65536)]

\* x >> r and x << r for 0 <= r < 16
ShrSmall(x, r) ==
    [lo  |-> (x.lo \div 2^r) + (x.hi % 2^r) * 2^(16 - r),
     hi  |-> (x.hi \div 2^r) + (x.top % 2^r) * 2^(16 - r),
     top |-> x.top \div 2^r]
ShlSmall(x, r) ==
    [lo  |-> (x.lo * 2^r) % 65536,
     hi  |-> ((x.hi * 2^r) % 65536) + (x.lo \div 2^(16 - r)),
     top |-> x.top * 2^r + (x.hi \div 2^(16 - r))]

\* x >> n and x << n for 0 <= n < 32
PyShr(x, n) ==
    IF n >= 16
    THEN ShrSmall([lo |-> x.hi, hi |-> x.top % 65536, top |-> x.top \div 65536], n - 16)
    ELSE ShrSmall(x, n)
PyShl(x, n) ==
    IF n >= 16
    THEN ShlSmall([lo |-> 0, hi |-> x.lo, top |-> x.hi + x.top * 65536], n - 16)
    ELSE ShlSmall(x, n)

\* a value fits an unsigned 32-bit word
IsWord32(x) == x.top = 0 /\ x.lo \in 0..65535 /\ x.hi \in 0..65535

(***************************************************************************)
(* SimpleHash256: the constant tables.                                     *)
(***************************************************************************)
INITIAL_HASH == <<
    W(\h6a09, \he667), W(\hbb67, \hae85), W(\h3c6e, \hf372), W(\ha54f, \hf53a),
    W(\h510e, \h527f), W(\h9b05, \h688c), W(\h1f83, \hd9ab), W(\h5be0, \hcd19) >>

K == <<
    W(\h428a, \h2f98), W(\h7137, \h4491), W(\hb5c0, \hfbcf), W(\he9b5, \hdba5),
    W(\h3956, \hc25b), W(\h59f1, \h11f1), W(\h923f, \h82a4), W(\hab1c, \h5ed5),
    W(\hd807, \haa98), W(\h1283, \h5b01), W(\h2431, \h85be), W(\h550c, \h7dc3),
    W(\h72be, \h5d74), W(\h80de, \hb1fe), W(\h9bdc, \h06a7), W(\hc19b, \hf174) >>

(***************************************************************************)
(* SimpleHash256: the pure helpers.                                        *)
(***************************************************************************)
\* "return ((value >> shift) | (value << (32 - shift))) & 0xFFFFFFFF"
RotateMasked(value, shift) ==
    PyAnd(PyOr(PyShr(value, shift), PyShl(value, 32 - shift)), MASK32)

\* _rotate_right: "value &= 0xFFFFFFFF", then the return statement
_rotate_right(value, shift) == RotateMasked(PyAnd(value, MASK32), shift)

\* s[a:b] of Python for 0 <= a <= b (the slice is cut at the end of s)
Slice(s, a, b) == SubSeq(s, a + 1, IF b < Len(s) THEN b ELSE Len(s))

\* byte k of b counted from 1, and 0 before the first byte
ByteAt(b, k) == IF k >= 1 THEN b[k] ELSE 0

\* int.from_bytes(b, byteorder='big') for at most 4 bytes (b'' gives 0)
FromBytes(b) ==
    W(ByteAt(b, Len(b) - 3) * 256 + ByteAt(b, Len(b) - 2),
      ByteAt(b, Len(b) - 1) * 256 + ByteAt(b, Len(b)))

\* word.to_bytes(4, byteorder='big') (defined for a 32-bit word)
ToBytes4(w) == << w.hi \div 256, w.hi % 256, w.lo \div 256, w.lo % 256 >>

\* (a slip: byteorder='little')
RECURSIVE ToBytesLittle(_, _)
ToBytesLittle(n, len) ==
    IF len = 0 THEN << >> ELSE << n % 256 >> \o ToBytesLittle(n \div 256, len - 1)

\* n.to_bytes(len, byteorder='big') for a natural n
RECURSIVE ToBytes(_, _)
ToBytes(n, len) ==
    IF len = 0 THEN << >> ELSE Append(ToBytes(n \div 256, len - 1), n % 256)

\* b'\x00' * n
Zeros(n) == [i \in 1..n |-> 0]

\* (a slip: the 0x80 marker byte left out of the count)
PaddingLenNoMarker(msg_len) == (56 - (msg_len % 64)) % 64

\* "padding_len = (56 - (msg_len + 1) % 64) % 64"
PaddingLen(msg_len) == (56 - ((msg_len + 1) % 64)) % 64

_pad_message(message) ==
    message \o << 128 >> \o Zeros(PaddingLen(Len(message)))
            \o ToBytes(Len(message) * 8, 8)

\* the 16 big-endian words of a 64-byte block (words[0..15] of the code)
BlockWords(block) ==
    [k \in 1..16 |-> FromBytes(Slice(block, 4 * (k - 1), 4 * (k - 1) + 4))] \o << >>

\* s0 and s1 of the message schedule, from words[i-15] and words[i-2]
SmallSigma0(w) == PyXor(PyXor(_rotate_right(w, 7), _rotate_right(w, 18)), PyShr(w, 3))
SmallSigma1(w) == PyXor(PyXor(_rotate_right(w, 17), _rotate_right(w, 19)), PyShr(w, 10))

\* the word appended for index i; words[i] of the code is words[i + 1] here
ScheduleWord(words, i) ==
    PyAnd(PyAdd(PyAdd(PyAdd(words[i - 16 + 1], SmallSigma0(words[i - 15 + 1])),
                      words[i - 7 + 1]),
                SmallSigma1(words[i - 2 + 1])),
          MASK32)

\* the loop "for i in range(16, 64): ... words.append(...)": i is len(words)
RECURSIVE ExtendWords(_)
ExtendWords(words) ==
    IF Len(words) >= 64 THEN words
    ELSE ExtendWords(Append(words, ScheduleWord(words, Len(words))))

\* the message schedule: 64 words from one block
Schedule(block) == ExtendWords(BlockWords(block))

\* the round functions; v = <<a, b, c, d, e, f, g, h>>
BigSigma1(e) ==
    PyXor(PyXor(_rotate_right(e, 6), _rotate_right(e, 11)), _rotate_right(e, 25))
Ch(e, f, g) == PyXor(PyAnd(e, f), PyAnd(PyNot(e), g))
\* (a slip: "self.K[i % 8]", half of the round constants)
Temp1HalfK(v, words, i) ==
    PyAnd(PyAdd(PyAdd(PyAdd(PyAdd(v[8], BigSigma1(v[5])), Ch(v[5], v[6], v[7])),
                      K[(i % 8) + 1]),
                words[i + 1]),
          MASK32)
Temp1(v, words, i) ==
    PyAnd(PyAdd(PyAdd(PyAdd(PyAdd(v[8], BigSigma1(v[5])), Ch(v[5], v[6], v[7])),
                      K[(i % 16) + 1]),
                words[i + 1]),
          MASK32)
BigSigma0(a) ==
    PyXor(PyXor(_rotate_right(a, 2), _rotate_right(a, 13)), _rotate_right(a, 22))
Maj(a, b, c) == PyXor(PyXor(PyAnd(a, b), PyAnd(a, c)), PyAnd(b, c))
Temp2(v) == PyAnd(PyAdd(BigSigma0(v[1]), Maj(v[1], v[2], v[3])), MASK32)

\* "Update working variables": the new <<a, .., h>>
Rotated(v, temp1, temp2) ==
    << PyAnd(PyAdd(temp1, temp2), MASK32), v[1], v[2], v[3],
       PyAnd(PyAdd(v[4], temp1), MASK32), v[5], v[6], v[7] >>

\* round i
Round(v, words, i) == Rotated(v, Temp1(v, words, i), Temp2(v))

\* the loop "for i in range(64)": vs[1] is <<a,..,h>> as loaded from self.state,
\* vs[i + 2] is <<a,..,h>> after round i; the round to run next is Len(vs) - 1
RECURSIVE Rounds(_, _)
Rounds(vs, words) ==
    IF Len(vs) > 64 THEN vs
    ELSE Rounds(Append(vs, Round(vs[Len(vs)], words, Len(vs) - 1)), words)

\* (a slip: the sums stored without "& 0xFFFFFFFF")
FeedForwardUnmasked(state, v) ==
    << PyAdd(state[1], v[1]), PyAdd(state[2], v[2]), PyAdd(state[3], v[3]),
       PyAdd(state[4], v[4]), PyAdd(state[5], v[5]), PyAdd(state[6], v[6]),
       PyAdd(state[7], v[7]), PyAdd(state[8], v[8]) >>

\* "Add compressed block to state"
FeedForward(state, v) ==
    << PyAnd(PyAdd(state[1], v[1]), MASK32), PyAnd(PyAdd(state[2], v[2]), MASK32),
       PyAnd(PyAdd(state[3], v[3]), MASK32), PyAnd(PyAdd(state[4], v[4]), MASK32),
       PyAnd(PyAdd(state[5], v[5]), MASK32), PyAnd(PyAdd(state[6], v[6]), MASK32),
       PyAnd(PyAdd(state[7], v[7]), MASK32), PyAnd(PyAdd(state[8], v[8]), MASK32) >>

\* _compress_block as a function of (self.state, block): the new self.state
_compress_block(state, block) ==
    FeedForward(state, Rounds(<< state >>, Schedule(block))[65])

(***************************************************************************)
(* Text and its UTF-8 encoding (str.encode('utf-8')).  A str is a sequence *)
(* of code points.                                                         *)
(***************************************************************************)
IsSurrogate(c) == c \in 55296..57343

Utf8Char(c) ==
    IF c < 128 THEN << c >>
    ELSE IF c < 2048 THEN << 192 + (c \div 64), 128 + (c % 64) >>
    ELSE IF c < 65536
         THEN << 224 + (c \div 4096), 128 + ((c \div 64) % 64), 128 + (c % 64) >>
         ELSE << 240 + (c \div 262144), 128 + ((c \div 4096) % 64),
                 128 + ((c \div 64) % 64), 128 + (c % 64) >>

\* (Len(done) >= 0 has TLC evaluate the bytes made so far at every step)
RECURSIVE Utf8Bytes(_, _)
Utf8Bytes(text, done) ==
    IF Len(done) >= 0 /\ text = << >> THEN done
    ELSE Utf8Bytes(Tail(text), done \o Utf8Char(Head(text)))

\* data.encode('utf-8'): the bytes, or UnicodeEncodeError on a lone surrogate
Utf8Encode(text) ==
    IF \E i \in 1..Len(text) : IsSurrogate(text[i])
    THEN [ok |-> FALSE, bytes |-> << >>]
    ELSE [ok |-> TRUE, bytes |-> Utf8Bytes(text, << >>)]

(***************************************************************************)
(* The values a caller passes and gets back.                               *)
(***************************************************************************)
Bytes(b)  == [type |-> "bytes", val |-> b]
Str(t)    == [type |-> "str", val |-> t]
None      == [type |-> "NoneType", val |-> << >>]
Raise(e)  == [type |-> "raise", val |-> << e >>]

\* bytes.hex(): two lower-case hexadecimal digits per byte
HexDigits == << "0", "1", "2", "3", "4", "5", "6", "7",
                "8", "9", "a", "b", "c", "d", "e", "f" >>
RECURSIVE HexOf(_, _)
HexOf(b, done) ==
    IF Len(done) >= 0 /\ b = << >> THEN done
    ELSE HexOf(Tail(b), done \o << HexDigits[(Head(b) \div 16) + 1],
                                   HexDigits[(Head(b) % 16) + 1] >>)
\* (a slip: "%x" per byte, no leading zero)
RECURSIVE HexUnpaddedOf(_, _)
HexUnpaddedOf(b, done) ==
    IF Len(done) >= 0 /\ b = << >> THEN done
    ELSE HexUnpaddedOf(Tail(b),
             done \o (IF Head(b) < 16 THEN << >> ELSE << HexDigits[(Head(b) \div 16) + 1] >>)
                  \o << HexDigits[(Head(b) % 16) + 1] >>)
HexUnpadded(b) == HexUnpaddedOf(b, << >>)
Hex(b) == HexOf(b, << >>)

(***************************************************************************)
(* The engine.  Python lists are objects: lists maps the identity of a     *)
(* list to its elements.  "INITIAL_HASH" is the class attribute, "own" the *)
(* list an instance made for itself with .copy(); the attribute self.state *)
(* of an instance o is o.state, the identity of the list it is bound to.   *)
(* An instance together with the lists is a record                         *)
(*     [lists, state, buffer, counter].                                    *)
(***************************************************************************)
BLOCK_SIZE == 64

\* lists with the list id holding elems; Copy is the lists after id.copy() made
\* a new list "own" (a list that was "own" before is no longer referenced)
Bind(lists, id, elems) ==
    [i \in DOMAIN lists \cup {id} |-> IF i = id THEN elems ELSE lists[i]]
Copy(lists, id) == Bind(lists, "own", lists[id])

\* (a slip: "self.state = self.INITIAL_HASH", the .copy() left out)
reset_aliasing(o) ==
    [o EXCEPT !.state   = "INITIAL_HASH",
              !.buffer  = << >>,
              !.counter = 0]

\* (a slip: the buffer not emptied)
reset_keeping_buffer(o) ==
    [o EXCEPT !.lists   = Copy(@, "INITIAL_HASH"),
              !.state   = "own",
              !.counter = 0]

\* reset(self)
reset(o) ==
    [o EXCEPT !.lists   = Copy(@, "INITIAL_HASH"),
              !.state   = "own",
              !.buffer  = << >>,
              !.counter = 0]

\* SimpleHash256(): __init__ calls reset on a new instance
New(lists) == reset([lists |-> lists, state |-> "INITIAL_HASH", buffer |-> << >>, counter |-> 0])

\* self._compress_block(block): writes the elements of the list self.state names
compress(o, block) ==
    [o EXCEPT !.lists[o.state] = _compress_block(o.lists[o.state], block)]

\* (a slip: "while len(self.buffer) > 64")
RECURSIVE ProcessBlocksOver(_)
ProcessBlocksOver(o) ==
    IF Len(o.buffer) > BLOCK_SIZE
    THEN ProcessBlocksOver(compress([o EXCEPT !.buffer = Slice(@, BLOCK_SIZE, Len(@))],
                                    Slice(o.buffer, 0, BLOCK_SIZE)))
    ELSE o

\* (a slip: "if len(self.buffer) >= 64", one block at most)
ProcessBlocksOnce(o) ==
    IF Len(o.buffer) >= BLOCK_SIZE
    THEN compress([o EXCEPT !.buffer = Slice(@, BLOCK_SIZE, Len(@))],
                  Slice(o.buffer, 0, BLOCK_SIZE))
    ELSE o

\* the loop "while len(self.buffer) >= 64" of update
RECURSIVE ProcessBlocks(_)
ProcessBlocks(o) ==
    IF Len(o.buffer) >= BLOCK_SIZE
    THEN ProcessBlocks(compress([o EXCEPT !.buffer = Slice(@, BLOCK_SIZE, Len(@))],
                                Slice(o.buffer, 0, BLOCK_SIZE)))
    ELSE o

\* (a slip: "self.counter += len(data)" left out)
AbsorbUncounted(o, bytes) == ProcessBlocks([o EXCEPT !.buffer = @ \o bytes])

\* (a slip: "self.buffer = data")
AbsorbOverwriting(o, bytes) ==
    ProcessBlocks([o EXCEPT !.buffer = bytes, !.counter = @ + Len(bytes)])

\* "self.buffer += data; self.counter += len(data)" and the while loop, for bytes
Absorb(o, bytes) ==
    ProcessBlocks([o EXCEPT !.buffer = @ \o bytes, !.counter = @ + Len(bytes)])

\* (a slip: encode('utf-8', errors='ignore') and a guard that skips other types)
Encodable(text) == SelectSeq(text, LAMBDA c : ~IsSurrogate(c))
update_lenient(o, data) ==
    IF data.type = "str"
    THEN [self |-> Absorb(o, Utf8Encode(Encodable(data.val)).bytes), ret |-> None]
    ELSE IF data.type \in {"bytes", "bytearray"}
         THEN [self |-> Absorb(o, data.val), ret |-> None]
         ELSE [self |-> o, ret |-> None]

\* update(self, data): the instance afterwards and what the call returns or raises
\* ("self.buffer += data" raises for an int or None and assigns nothing; for a
\* ctypes.c_int it appends the exported bytes, and "len(data)" of the next
\* line raises)
update(o, data) ==
    IF data.type = "str"
    THEN IF Utf8Encode(data.val).ok
         THEN [self |-> Absorb(o, Utf8Encode(data.val).bytes), ret |-> None]
         ELSE [self |-> o, ret |-> Raise("UnicodeEncodeError")]
    ELSE IF data.type \in {"bytes", "bytearray"}
         THEN [self |-> Absorb(o, data.val), ret |-> None]
         ELSE IF data.type = "c_int"
              THEN [self |-> [o EXCEPT !.buffer = @ \o data.val],
                    ret  |-> Raise("TypeError")]
              ELSE [self |-> o, ret |-> Raise("TypeError")]

\* the loop "for i in range(0, len(padded), 64)" of digest, from offset i
RECURSIVE CompressPadded(_, _, _)
CompressPadded(o, padded, i) ==
    IF i < Len(padded)
    THEN CompressPadded(compress(o, Slice(padded, i, i + BLOCK_SIZE)), padded,
                        i + BLOCK_SIZE)
    ELSE o

\* "for word in self.state: result += word.to_bytes(4, byteorder='big')"
StateBytes(words) ==
    ToBytes4(words[1]) \o ToBytes4(words[2]) \o ToBytes4(words[3]) \o ToBytes4(words[4])
 \o ToBytes4(words[5]) \o ToBytes4(words[6]) \o ToBytes4(words[7]) \o ToBytes4(words[8])

\* (a slip: "temp_state = self.state", the .copy() left out: the list compressed
\* into is the one bound back)
RestoreAliased(o, done) ==
    [self |-> [done EXCEPT !.state = o.state],
     ret  |-> Bytes(StateBytes(done.lists[done.state]))]

\* (a slip: "self.state = temp_state" left out)
RestoreSkipped(o, done) ==
    [self |-> done, ret |-> Bytes(StateBytes(done.lists[done.state]))]

\* the end of digest: o is the instance as digest found it (temp_state is a copy
\* of its state), done the instance after the loop; the result is read from
\* self.state, then "self.state = temp_state"
Restore(o, done) ==
    [self |-> [done EXCEPT !.lists = Bind(@, "own", o.lists[o.state]),
                           !.state = "own"],
     ret  |-> Bytes(StateBytes(done.lists[done.state]))]

\* (a slip: digest ends with "self.buffer = b''")
BufferCleared(r) == [r EXCEPT !.self.buffer = << >>]
digest_clearing(o) == BufferCleared(Restore(o, CompressPadded(o, _pad_message(o.buffer), 0)))

\* digest(self)
digest(o) == Restore(o, CompressPadded(o, _pad_message(o.buffer), 0))

\* hexdigest(self): "return self.digest().hex()"
HexOfDigest(d) == [self |-> d.self, ret |-> Str(Hex(d.ret.val))]
hexdigest(o) == HexOfDigest(digest(o))

\* what a module-level function hands back: its local hasher and the list that
\* hasher made die at the return, the class list lives on
Returned(r) ==
    [lists |-> [id \in {"INITIAL_HASH"} |-> r.self.lists["INITIAL_HASH"]], ret |-> r.ret]

\* hash_string(message): the lists afterwards and the value returned or raised
HashUpdated(u) == IF u.ret.type = "raise" THEN Returned(u) ELSE Returned(hexdigest(u.self))
hash_string(lists, message) == HashUpdated(update(New(lists), message))

\* hash_file(filename), for a file that opens and reads without error; file is
\* its content.  "chunk = f.read(8192); if not chunk: break; hasher.update(chunk)"
READ_SIZE == 8192
RECURSIVE ReadChunks(_, _, _)
ReadChunks(o, file, pos) ==
    IF Slice(file, pos, pos + READ_SIZE) = << >> THEN o
    ELSE ReadChunks(update(o, Bytes(Slice(file, pos, pos + READ_SIZE))).self, file,
                    pos + READ_SIZE)
hash_file(lists, file) == Returned(hexdigest(ReadChunks(New(lists), file, 0)))

(***************************************************************************)
(* The inputs.  The callers feed an engine consecutive pieces of one text, *)
(* as str or as the bytes of its encoding.  The text is made of units of 4 *)
(* bytes each: four ASCII letters; a 2-byte character and two letters; a   *)
(* 3-byte character and a letter; a 4-byte character.                      *)
(***************************************************************************)
MaxLen == 132
MaxDigests == 2
MaxFile == 8200
MaxCalls == 3

TextUnit(k) ==
    CASE k % 4 = 0 -> << 97 + (k % 26), 65 + ((3 * k) % 26), 48 + (k % 10), 32 >>
      [] k % 4 = 1 -> << 233 + k, 98 + (k % 25), 44 >>
      [] k % 4 = 2 -> << 20320 + (17 * k), 33 + (k % 90) >>
      [] OTHER     -> << 127881 + k >>

\* the text of the units from..to-1
RECURSIVE TextUnits(_, _)
TextUnits(from, to) ==
    IF from >= to THEN << >> ELSE TextUnit(from) \o TextUnits(from + 1, to)

\* the text whose encoding is bytes pos..pos+n-1 (pos and n multiples of 4)
TextAt(pos, n) == TextUnits(pos \div 4, (pos + n) \div 4)

BytesLens == {0, 20, 64, 132}
StrLens == {0, 20}

\* the arguments a caller may pass when pos bytes have been fed
GoodArgs(pos) ==
    { Bytes(Utf8Encode(TextAt(pos, n)).bytes) : n \in { m \in BytesLens : pos + m <= MaxLen } }
    \cup { Str(TextAt(pos, n)) : n \in { m \in StrLens : pos + m <= MaxLen } }
\* a str with a lone surrogate, and an int
BadArgs ==
    { Str(<< 104, 55296, 105 >>), [type |-> "int", val |-> << 5 >>] }

\* the files handed to hash_file: empty, shorter than one read, and longer
\* than one read
FileContent(n) == [i \in 1..n |-> (7 * i + (i \div 256)) % 256] \o << >>
Files == { FileContent(n) : n \in {0, 100, MaxFile} }

\* the messages handed to hash_string
Messages ==
    { Bytes(<< >>), Bytes(Utf8Encode(TextAt(0, 20)).bytes),
      Bytes(Utf8Encode(TextAt(0, 60)).bytes), Str(TextAt(0, 20)), Str(TextAt(20, 20)) }

\* the contents of the pending buffer handed to _pad_message
Buffers == { [i \in 1..n |-> fill] : n \in 0..(BLOCK_SIZE - 1), fill \in {0, 255} }

\* inputs that leave such a buffer behind one compressed block
Longer == { [i \in 1..(BLOCK_SIZE + n) |-> i % 256] : n \in 0..(BLOCK_SIZE - 1) }

VARIABLES
    lists,      \* the list objects: identity -> elements
    state,      \* self.state: the identity of the list it is bound to
    buffer,     \* self.buffer
    counter,    \* self.counter
    msg,        \* all bytes accepted by update since construction or the last reset
    lastOp,     \* the last call made
    arg,        \* its argument
    ret,        \* what it returned or raised
    ndigest,    \* digest/hexdigest calls since the last update or reset call
    first,      \* what the first of those calls returned, in hexadecimal
    earlier,    \* digest or hexdigest was called before the last update call,
                \* since construction or the last reset
    cleared,    \* the byte count (self.counter) the last call cleared, if a reset
    calls,      \* the hash_string calls made: << [arg, ret], .. >>
    other,      \* the other instances alive: << [state, buffer, counter, msg, acted] >>
    frame       \* the digest calls in progress: << [pc, padded, i, result] >>

vars == << lists, state, buffer, counter, msg, lastOp, arg, ret, ndigest, first,
           earlier, cleared, calls, other, frame >>

\* the instance and the lists, as the record the operators work on
Self == [lists |-> lists, state |-> state, buffer |-> buffer, counter |-> counter]

Is(o) ==
    /\ lists = o.lists
    /\ state = o.state
    /\ buffer = o.buffer
    /\ counter = o.counter

Becomes(o) ==
    /\ lists' = o.lists
    /\ state' = o.state
    /\ buffer' = o.buffer
    /\ counter' = o.counter

\* the lists of the class before any instance exists
ClassLists == [id \in {"INITIAL_HASH"} |-> INITIAL_HASH]

\* "hasher = SimpleHash256()", nothing called on it yet
Init ==
    /\ Is(New(ClassLists))
    /\ msg = << >>
    /\ lastOp = "new"
    /\ arg = None
    /\ ret = None
    /\ ndigest = 0
    /\ first = << >>
    /\ earlier = FALSE
    /\ cleared = 0
    /\ calls = << >>
    /\ other = << >>
    /\ frame = << >>

\* hasher.update(data)
Update ==
    /\ \E data \in GoodArgs(Len(msg)) \cup BadArgs :
        \E r \in { update(Self, data) } :
            /\ Becomes(r.self)
            /\ msg' = IF r.ret.type = "raise" THEN msg
                      ELSE msg \o (IF data.type = "str" THEN Utf8Encode(data.val).bytes
                                                        ELSE data.val)
            /\ lastOp' = "update"
            /\ arg' = data
            /\ ret' = r.ret
    /\ ndigest' = 0
    /\ first' = << >>
    /\ earlier' = (earlier \/ ndigest > 0)
    /\ cleared' = 0
    /\ UNCHANGED << calls, other, frame >>

\* hasher.digest()
Digest ==
    /\ ndigest < MaxDigests
    /\ \E r \in { digest(Self) } :
           /\ Becomes(r.self)
           /\ lastOp' = "digest"
           /\ arg' = None
           /\ ret' = r.ret
           /\ ndigest' = ndigest + 1
           /\ first' = IF ndigest = 0 THEN Hex(r.ret.val) ELSE first
    /\ cleared' = 0
    /\ UNCHANGED << msg, earlier, calls, other, frame >>

\* hasher.hexdigest()
Hexdigest ==
    /\ ndigest < MaxDigests
    /\ \E r \in { hexdigest(Self) } :
           /\ Becomes(r.self)
           /\ lastOp' = "hexdigest"
           /\ arg' = None
           /\ ret' = r.ret
           /\ ndigest' = ndigest + 1
           /\ first' = IF ndigest = 0 THEN r.ret.val ELSE first
    /\ cleared' = 0
    /\ UNCHANGED << msg, earlier, calls, other, frame >>

\* hasher.reset()
Reset ==
    /\ lastOp # "new"
    /\ Becomes(reset(Self))
    /\ msg' = << >>
    /\ lastOp' = "reset"
    /\ arg' = None
    /\ ret' = None
    /\ ndigest' = 0
    /\ first' = << >>
    /\ earlier' = FALSE
    /\ cleared' = counter
    /\ UNCHANGED << calls, other, frame >>

\* hash_file(filename), called while hasher is still untouched: the function
\* works on a hasher of its own
HashFile ==
    /\ lastOp = "new"
    /\ \E file \in Files :
        \E r \in { hash_file(lists, file) } :
            /\ lists' = Bind(lists, "INITIAL_HASH", r.lists["INITIAL_HASH"])
            /\ lastOp' = "hash_file"
            /\ arg' = Bytes(file)
            /\ ret' = r.ret
    /\ UNCHANGED << state, buffer, counter, msg, ndigest, first, earlier, cleared, calls,
                    other, frame >>

Next == Update \/ Digest \/ Hexdigest \/ Reset \/ HashFile

Spec == Init /\ [][Next]_vars

(***************************************************************************)
(* hash_string called again and again (test_determinism): every call makes *)
(* a fresh engine.                                                         *)
(***************************************************************************)
HashString ==
    /\ Len(calls) < MaxCalls
    /\ \E message \in Messages :
        \E r \in { hash_string(lists, message) } :
            /\ lists' = Bind(lists, "INITIAL_HASH", r.lists["INITIAL_HASH"])
            /\ lastOp' = "hash_string"
            /\ arg' = message
            /\ ret' = r.ret
            /\ calls' = Append(calls, [arg |-> message, ret |-> r.ret])
    /\ UNCHANGED << state, buffer, counter, msg, ndigest, first, earlier, cleared,
                    other, frame >>

NextDet == HashString

SpecDet == Init /\ [][NextDet]_vars

(***************************************************************************)
(* _pad_message applied to the pending buffer of an engine that one update *)
(* call has fed: less than one block, or one block and a bit.              *)
(***************************************************************************)
InitPad ==
    \E b \in Buffers \cup Longer :
        /\ Is(update(New(ClassLists), Bytes(b)).self)
        /\ msg = b
        /\ lastOp = "update"
        /\ arg = Bytes(b)
        /\ ret = None
        /\ ndigest = 0
        /\ first = << >>
        /\ earlier = FALSE
        /\ cleared = 0
        /\ calls = << >>
        /\ other = << >>
        /\ frame = << >>

PadMessage ==
    /\ lastOp = "update"
    /\ lastOp' = "_pad_message"
    /\ arg' = Bytes(buffer)
    /\ ret' = Bytes(_pad_message(buffer))
    /\ UNCHANGED << lists, state, buffer, counter, msg, ndigest, first, earlier,
                    cleared, calls, other, frame >>

NextPad == PadMessage

SpecPad == InitPad /\ [][NextPad]_vars

(***************************************************************************)
(* Two instances, hasher1 (the variables state, buffer, counter, msg) and  *)
(* hasher2 (other[1]), called in any order.  A method reaches the lists    *)
(* through self and through the class, so all lists are handed to it; the  *)
(* attributes of the instance it is not called on are out of its reach.    *)
(* The list hasher2 made for itself is "other" in lists, and "own" to      *)
(* hasher2: Seen gives the lists under the names the second instance uses. *)
(***************************************************************************)
MaxTwo == 80

Rename(id) == IF id = "own" THEN "other" ELSE IF id = "other" THEN "own" ELSE id
Seen(ls) == [id \in { Rename(i) : i \in DOMAIN ls } |-> ls[Rename(id)]]

\* hasher2 and the lists, as the record the operators work on
Other ==
    [lists |-> Seen(lists), state |-> other[1].state, buffer |-> other[1].buffer,
     counter |-> other[1].counter]

\* hasher2 after a call that left it as o, with m passed to update so far
OtherBecomes(o, m) ==
    /\ lists' = Seen(o.lists)
    /\ other' = << [state |-> o.state, buffer |-> o.buffer, counter |-> o.counter,
                    msg |-> m, acted |-> TRUE] >>

\* the call was made on hasher1
OneActed == other' = << [other[1] EXCEPT !.acted = FALSE] >>

TwoLens == {20, 40}
TwoArgs(pos) ==
    { Bytes(Utf8Encode(TextAt(pos, n)).bytes) : n \in { m \in TwoLens : pos + m <= MaxTwo } }

\* "hasher1 = SimpleHash256(); hasher2 = SimpleHash256()"
Second == New(Seen(New(ClassLists).lists))
InitTwo ==
    /\ lists = Seen(Second.lists)
    /\ state = New(ClassLists).state
    /\ buffer = New(ClassLists).buffer
    /\ counter = New(ClassLists).counter
    /\ other = << [state |-> Second.state, buffer |-> Second.buffer,
                   counter |-> Second.counter, msg |-> << >>, acted |-> FALSE] >>
    /\ msg = << >>
    /\ lastOp = "new"
    /\ arg = None
    /\ ret = None
    /\ ndigest = 0
    /\ first = << >>
    /\ earlier = FALSE
    /\ cleared = 0
    /\ calls = << >>
    /\ frame = << >>

\* hasher1.update(data)
UpdateOne ==
    /\ \E data \in TwoArgs(Len(msg)) :
        \E r \in { update(Self, data) } :
            /\ Becomes(r.self)
            /\ msg' = msg \o data.val
            /\ arg' = data
            /\ ret' = r.ret
    /\ lastOp' = "update"
    /\ OneActed
    /\ UNCHANGED << ndigest, first, earlier, cleared, calls, frame >>

\* hasher1.digest()
DigestOne ==
    /\ \E r \in { digest(Self) } :
           /\ Becomes(r.self)
           /\ ret' = r.ret
    /\ lastOp' = "digest"
    /\ arg' = None
    /\ OneActed
    /\ UNCHANGED << msg, ndigest, first, earlier, cleared, calls, frame >>

\* hasher1.reset()
ResetOne ==
    /\ Becomes(reset(Self))
    /\ msg' = << >>
    /\ lastOp' = "reset"
    /\ arg' = None
    /\ ret' = None
    /\ OneActed
    /\ UNCHANGED << ndigest, first, earlier, cleared, calls, frame >>

\* hasher2.update(data)
UpdateOther ==
    /\ \E data \in TwoArgs(Len(other[1].msg)) :
        \E r \in { update(Other, data) } :
            /\ OtherBecomes(r.self, other[1].msg \o data.val)
            /\ arg' = data
            /\ ret' = r.ret
    /\ lastOp' = "update"
    /\ UNCHANGED << state, buffer, counter, msg, ndigest, first, earlier, cleared,
                    calls, frame >>

\* hasher2.digest()
DigestOther ==
    /\ \E r \in { digest(Other) } :
           /\ OtherBecomes(r.self, other[1].msg)
           /\ ret' = r.ret
    /\ lastOp' = "digest"
    /\ arg' = None
    /\ UNCHANGED << state, buffer, counter, msg, ndigest, first, earlier, cleared,
                    calls, frame >>

\* hasher2.reset()
ResetOther ==
    /\ OtherBecomes(reset(Other), << >>)
    /\ lastOp' = "reset"
    /\ arg' = None
    /\ ret' = None
    /\ UNCHANGED << state, buffer, counter, msg, ndigest, first, earlier, cleared,
                    calls, frame >>

NextTwo ==
    UpdateOne \/ DigestOne \/ ResetOne \/ UpdateOther \/ DigestOther \/ ResetOther

SpecTwo == InitTwo /\ [][NextTwo]_vars

(***************************************************************************)
(* digest statement by statement, on an engine that one update call has    *)
(* fed.  frame[1] holds the locals of the running call: padded, the offset *)
(* i of the for loop and result; the lists final_state and temp_state are  *)
(* in lists under these names until the call returns.                      *)
(***************************************************************************)
DigestInputs ==
    { Utf8Encode(TextAt(0, n)).bytes : n \in { k \in 0..MaxLen : k % 4 = 0 } }

InitDigest ==
    \E m \in DigestInputs :
        /\ Is(update(New(ClassLists), Bytes(m)).self)
        /\ msg = m
        /\ lastOp = "update"
        /\ arg = Bytes(m)
        /\ ret = None
        /\ ndigest = 0
        /\ first = << >>
        /\ earlier = FALSE
        /\ cleared = 0
        /\ calls = << >>
        /\ other = << >>
        /\ frame = << >>

\* "final_state = self.state.copy() .. temp_state = self.state.copy()"
DigestEnter ==
    /\ frame = << >>
    /\ frame' = << [pc |-> "loop", padded |-> _pad_message(buffer), i |-> 0,
                    result |-> << >>] >>
    /\ lists' = Bind(Bind(lists, "final_state", lists[state]), "temp_state", lists[state])
    /\ UNCHANGED << state, buffer, counter, msg, lastOp, arg, ret, ndigest, first,
                    earlier, cleared, calls, other >>

\* one turn of "for i in range(0, len(padded), 64)"
DigestBlock ==
    /\ frame # << >>
    /\ frame[1].pc = "loop"
    /\ frame[1].i < Len(frame[1].padded)
    /\ Becomes(compress(Self, Slice(frame[1].padded, frame[1].i, frame[1].i + BLOCK_SIZE)))
    /\ frame' = << [frame[1] EXCEPT !.i = @ + BLOCK_SIZE] >>
    /\ UNCHANGED << msg, lastOp, arg, ret, ndigest, first, earlier, cleared, calls, other >>

\* "result = b''; for word in self.state: result += word.to_bytes(4, ..)"
DigestResult ==
    /\ frame # << >>
    /\ frame[1].pc = "loop"
    /\ frame[1].i >= Len(frame[1].padded)
    /\ frame' = << [frame[1] EXCEPT !.pc = "restore", !.result = StateBytes(lists[state])] >>
    /\ UNCHANGED << lists, state, buffer, counter, msg, lastOp, arg, ret, ndigest, first,
                    earlier, cleared, calls, other >>

\* "self.state = temp_state; return result": the locals die, and the list
\* self.state is bound to is from now on the one the instance owns
DigestReturn ==
    /\ frame # << >>
    /\ frame[1].pc = "restore"
    /\ lists' = [id \in {"INITIAL_HASH", "own"} |->
                    IF id = "own" THEN lists["temp_state"] ELSE lists[id]]
    /\ state' = "own"
    /\ frame' = << >>
    /\ lastOp' = "digest"
    /\ arg' = None
    /\ ret' = Bytes(frame[1].result)
    /\ UNCHANGED << buffer, counter, msg, ndigest, first, earlier, cleared, calls, other >>

NextDigest == DigestEnter \/ DigestBlock \/ DigestResult \/ DigestReturn

SpecDigest == InitDigest /\ [][NextDigest]_vars

(***************************************************************************)
(* One engine fed by update calls only, in pieces of 0, 4, 60, 64 and 132  *)
(* bytes, up to MaxUpd bytes in all: the pending lengths are the multiples  *)
(* of 4 below 64.                                                          *)
(***************************************************************************)
MaxUpd == 136

UpdLens == {0, 4, 60, 64, 132}
UpdArgs(pos) ==
    { Bytes(Utf8Encode(TextAt(pos, n)).bytes) : n \in { m \in UpdLens : pos + m <= MaxUpd } }

\* hasher.update(data)
UpdateStream ==
    /\ \E data \in UpdArgs(Len(msg)) :
        \E r \in { update(Self, data) } :
            /\ Becomes(r.self)
            /\ msg' = msg \o data.val
            /\ arg' = data
            /\ ret' = r.ret
    /\ lastOp' = "update"
    /\ UNCHANGED << ndigest, first, earlier, cleared, calls, other, frame >>

NextUpd == UpdateStream

SpecUpd == Init /\ [][NextUpd]_vars

(***************************************************************************)
(* One engine handed every kind of argument: bytes in pieces of 20 and 60  *)
(* up to MaxFed bytes, the arguments of BadArgs, and a ctypes.c_int, which *)
(* bytes.__add__ accepts (it exports its 4 bytes) and len() rejects.  The  *)
(* c_int is handed to an engine whose buffer and counter still agree, so   *)
(* once in a run.                                                          *)
(***************************************************************************)
MaxFed == 80

FedLens == {20, 60}

\* ctypes.c_int(5): its buffer is the 4 bytes of the int, low byte first
c_int == [type |-> "c_int", val |-> << 5, 0, 0, 0 >>]

AnyArgs(pos) ==
    { Bytes(Utf8Encode(TextAt(pos, n)).bytes) : n \in { m \in FedLens : pos + m <= MaxFed } }
    \cup BadArgs \cup { c_int }

\* hasher.update(data), the caller catching what it raises
UpdateAny ==
    /\ \E data \in AnyArgs(Len(msg)) :
        /\ data.type = "c_int" => Len(buffer) = counter % BLOCK_SIZE
        /\ \E r \in { update(Self, data) } :
            /\ Becomes(r.self)
            /\ msg' = IF r.ret.type = "raise" THEN msg ELSE msg \o data.val
            /\ arg' = data
            /\ ret' = r.ret
    /\ lastOp' = "update"
    /\ ndigest' = 0
    /\ first' = << >>
    /\ earlier' = (earlier \/ ndigest > 0)
    /\ cleared' = 0
    /\ UNCHANGED << calls, other, frame >>

NextFail == UpdateAny \/ Digest

SpecFail == Init /\ [][NextFail]_vars

(***************************************************************************)
(* The properties.                                                         *)
(***************************************************************************)
\* the one-shot hash of m: a fresh engine, one update(m), digest
OneShot(m) == digest(update(New(ClassLists), Bytes(m)).self).ret.val

\* C1: a fresh engine fed the pieces of msg by successive update calls (in
\* any reachable split: empty pieces, pieces across block boundaries, str or
\* bytes) returns from digest the 32 bytes of the one-shot hash of msg, and
\* hash_file returns the hex form of the one-shot hash of the file's bytes.
C1_IncrementalIsOneShot ==
    /\ (lastOp = "digest" /\ ndigest = 1 /\ ~earlier) => ret = Bytes(OneShot(msg))
    /\ lastOp = "hash_file" => ret = Str(Hex(OneShot(arg.val)))

\* five pieces of 20 bytes, the fourth across the first block boundary
C1_Witness ==
    /\ lastOp = "digest" /\ ndigest = 1 /\ ~earlier
    /\ Len(msg) = 100 /\ counter = 100 /\ Len(buffer) = 36

\* C2: every digest (and hexdigest) call returns the one-shot hash of all
\* bytes passed to update since construction or the last reset, however many
\* digest calls were made before it.
C2_DigestKeepsMessage ==
    /\ lastOp = "digest" => ret = Bytes(OneShot(msg))
    /\ lastOp = "hexdigest" => ret = Str(Hex(OneShot(msg)))

\* update(a); digest(); update(b); digest() with b ending inside a later block
C2_Witness ==
    /\ lastOp = "digest" /\ earlier
    /\ counter > BLOCK_SIZE /\ Len(buffer) > 0

\* C3: a digest or hexdigest call that follows another with no update or
\* reset between them returns what the first of them returned.
C3_RepeatedDigest ==
    ndigest >= 2 =>
        (IF lastOp = "digest" THEN Hex(ret.val) ELSE ret.val) = first

\* a second call on a buffer of 56..63 bytes, which pads to two blocks
C3_Witness ==
    /\ ndigest >= 2 /\ lastOp \in {"digest", "hexdigest"}
    /\ Len(buffer) \in 56..63

\* the 32 bytes are the 8 words, 4 big-endian bytes each, in order
EncodesWords(bytes, words) ==
    /\ Len(bytes) = 32
    /\ Len(words) = 8
    /\ \A k \in 1..8 :
          /\ words[k].hi = bytes[4 * k - 3] * 256 + bytes[4 * k - 2]
          /\ words[k].lo = bytes[4 * k - 1] * 256 + bytes[4 * k]
LowerHex ==
    {"0", "1", "2", "3", "4", "5", "6", "7", "8", "9", "a", "b", "c", "d", "e", "f"}

\* C4: digest returns exactly 32 bytes, the big-endian encoding of the 8
\* state words the padded message leaves; hexdigest (and hash_file) return
\* exactly 64 characters, each a lower-case hexadecimal digit.
C4_OutputLength ==
    /\ lastOp = "digest" =>
          /\ ret.type = "bytes"
          /\ \A i \in 1..Len(ret.val) : ret.val[i] \in 0..255
          /\ EncodesWords(ret.val,
                 CompressPadded(Self, _pad_message(buffer), 0).lists[state])
    /\ lastOp \in {"hexdigest", "hash_file"} =>
          /\ ret.type = "str"
          /\ Len(ret.val) = 64
          /\ \A i \in 1..Len(ret.val) : ret.val[i] \in LowerHex

\* hexdigest of the empty input
C4_Witness == lastOp = "hexdigest" /\ msg = << >> /\ counter = 0 /\ Len(ret.val) = 64

\* C5: two hash_string calls with the same message, each on a fresh engine,
\* return the same value, whatever was hashed before or between them.
C5_Deterministic ==
    \A i \in 1..Len(calls) : \A j \in 1..Len(calls) :
        calls[i].arg = calls[j].arg => calls[i].ret = calls[j].ret

\* the same 60-byte message hashed twice with another message between
C5_Witness ==
    /\ Len(calls) = 3
    /\ calls[1].arg = calls[3].arg /\ calls[2].arg # calls[1].arg
    /\ Len(calls[1].arg.val) = 60 /\ calls[3].ret.type = "str"

TraceInRange(st, words, vs) ==
    /\ Len(words) = 64
    /\ \A i \in 1..64 : IsWord32(words[i])
    /\ \A i \in 1..65 : \A j \in 1..8 : IsWord32(vs[i][j])
    /\ \A i \in 0..63 :
          /\ IsWord32(Ch(vs[i + 1][5], vs[i + 1][6], vs[i + 1][7]))
          /\ IsWord32(Temp1(vs[i + 1], words, i))
          /\ IsWord32(Temp2(vs[i + 1]))
    /\ \A j \in 1..8 : IsWord32(FeedForward(st, vs[65])[j])
RoundsInRange(st, words) == TraceInRange(st, words, Rounds(<< st >>, words))
CompressInRange(st, block) == RoundsInRange(st, Schedule(block))

\* C7: the engine state is always 8 words in 0..0xFFFFFFFF, and so is every
\* value of the _compress_block run digest makes next from that state (on the
\* first block of the padded buffer).
C7_WordsIn32Bits ==
    /\ Len(lists[state]) = 8
    /\ \A k \in 1..8 : IsWord32(lists[state][k])
    /\ CompressInRange(lists[state], Slice(_pad_message(buffer), 0, BLOCK_SIZE))

\* a state two compressed blocks away from the initial one
C7_Witness ==
    /\ counter >= 2 * BLOCK_SIZE /\ Len(buffer) > 0
    /\ lists[state] # INITIAL_HASH

\* C8: after reset the state holds the 8 initial constants, the buffer is
\* empty and the counter is 0: the engine and the lists are those of a newly
\* constructed engine.
C8_ResetIsFresh ==
    lastOp = "reset" =>
        /\ lists[state] = INITIAL_HASH
        /\ buffer = << >>
        /\ counter = 0
        /\ Self = New(ClassLists)

\* a reset of an engine that had compressed a block and held pending bytes
C8_Witness == lastOp = "reset" /\ cleared > BLOCK_SIZE /\ cleared % BLOCK_SIZE # 0

\* C9: _pad_message on 0..63 bytes returns a positive multiple of 64 bytes,
\* so every slice digest compresses is a whole block.
C9_PaddedWholeBlocks ==
    lastOp = "_pad_message" =>
        /\ Len(arg.val) \in 0..63
        /\ Len(ret.val) > 0
        /\ Len(ret.val) % 64 = 0
        /\ \A i \in 0..(((Len(ret.val) + 63) \div 64) - 1) :
              Len(Slice(ret.val, 64 * i, 64 * i + 64)) = 64

\* 56 bytes: the length field no longer fits the first block
C9_Witness == lastOp = "_pad_message" /\ Len(arg.val) = 56 /\ Len(ret.val) = 128

\* an argument update cannot convert to bytes
Unconvertible(data) ==
    \/ data.type = "str" /\ \E i \in 1..Len(data.val) : data.val[i] \in 55296..57343
    \/ data.type \notin {"str", "bytes", "bytearray"}

\* Python's exceptions for a failed conversion (the spec's EncodingError)
EncodingError == {"UnicodeEncodeError", "TypeError"}

\* C10: an update call with an unconvertible argument raises an encoding
\* error to its caller: it returns nothing, and no digest.
C10_UnconvertibleRaises ==
    (lastOp = "update" /\ Unconvertible(arg)) =>
        /\ ret.type = "raise"
        /\ ret.val[1] \in EncodingError
        /\ ndigest = 0 /\ first = << >>

\* an int passed to an engine holding pending bytes
C10_Witness ==
    /\ lastOp = "update" /\ arg.type = "int" /\ ret = Raise("TypeError")
    /\ Len(buffer) > 0

\* the elements of the list hasher2.state names
OtherState(ls, inst) == Seen(ls)[inst.state]

\* C11: a call on one of two instances leaves the other's state words,
\* buffer and counter as they were, no call changes the class list
\* INITIAL_HASH, and every digest is the one-shot hash of what that instance
\* alone was fed.
C11_Independent ==
    [][ /\ lists'["INITIAL_HASH"] = INITIAL_HASH
        /\ other'[1].acted =>
              /\ lists'[state'] = lists[state]
              /\ buffer' = buffer
              /\ counter' = counter
        /\ ~other'[1].acted =>
              /\ OtherState(lists', other'[1]) = OtherState(lists, other[1])
              /\ other'[1].buffer = other[1].buffer
              /\ other'[1].counter = other[1].counter
        /\ lastOp' = "digest" =>
              ret' = Bytes(OneShot(IF other'[1].acted THEN other'[1].msg ELSE msg'))
      ]_vars

\* hasher2 digests with a block compressed, hasher1 holding 60 pending bytes
C11_Witness ==
    /\ Len(other) = 1 /\ other[1].acted /\ lastOp = "digest"
    /\ other[1].counter = 80 /\ counter = 60
    /\ lists[state] # OtherState(lists, other[1])
    /\ OtherState(lists, other[1]) # INITIAL_HASH

\* C12: when digest (or hexdigest) returns, the 8 state words, the pending
\* buffer and the byte counter are what they were when it was called.
C12_DigestLeavesEngine ==
    [][ lastOp' \in {"digest", "hexdigest"} =>
            /\ lists'[state'] = lists[state]
            /\ buffer' = buffer
            /\ counter' = counter
      ]_vars

\* a first digest of 124 bytes: one block compressed, 60 bytes pending
C12_Witness ==
    /\ lastOp = "digest" /\ ndigest = 1
    /\ counter = 124 /\ Len(buffer) = 60 /\ lists[state] # INITIAL_HASH

\* C13: at every step between the start of digest and its return the live
\* state (the list self.state names) holds what it held when digest was
\* called, the padding blocks going into a working copy.
C13_LiveStateNeverPadded ==
    frame # << >> => lists[state] = lists["temp_state"]

\* the least number of zero bytes after b and 0x80 that brings the length to
\* 56 modulo 64
LeastZeros(L) ==
    CHOOSE z \in 0..63 :
        /\ (L + 1 + z) % 64 = 56
        /\ \A y \in 0..(z - 1) : (L + 1 + y) % 64 # 56

\* padded is b, 0x80, zeros zero bytes, six zero bytes and the two bytes of
\* 8 * Len(b) (which is below 2^16), most significant first
LaidOut(b, zeros, padded) ==
    /\ Len(padded) = Len(b) + 1 + zeros + 8
    /\ SubSeq(padded, 1, Len(b)) = b
    /\ padded[Len(b) + 1] = 128
    /\ \A k \in (Len(b) + 2)..(Len(b) + 1 + zeros) : padded[k] = 0
    /\ \A k \in (Len(padded) - 7)..(Len(padded) - 2) : padded[k] = 0
    /\ padded[Len(padded) - 1] * 256 + padded[Len(padded)] = 8 * Len(b)

\* C14: _pad_message(b) for 0..63 bytes b is b, one 0x80 byte, the least
\* number of 0x00 bytes that brings the length to 56 modulo 64, and the 8
\* big-endian bytes of 8 * Len(b), the bit length of b whatever the engine
\* has absorbed before; it is 64 bytes up to 55 bytes of b and 128 above.
C14_PaddingLayout ==
    lastOp = "_pad_message" =>
        /\ Len(arg.val) \in 0..63
        /\ LaidOut(arg.val, LeastZeros(Len(arg.val)), ret.val)
        /\ Len(ret.val) = IF Len(arg.val) <= 55 THEN 64 ELSE 128

\* 63 pending bytes of 127 absorbed: the length field says 504 bits
C14_Witness ==
    /\ lastOp = "_pad_message" /\ Len(arg.val) = 63 /\ counter = 127
    /\ ret.val[127] * 256 + ret.val[128] = 504

DataBytes(data) == IF data.type = "str" THEN Utf8Encode(data.val).bytes ELSE data.val

\* _compress_block applied to st with the 64-byte chunks number j, .., k - 1
\* of bytes (counted from 0), one after the other
RECURSIVE Chunked(_, _, _, _)
Chunked(st, bytes, j, k) ==
    IF j >= k THEN st
    ELSE Chunked(_compress_block(st, SubSeq(bytes, 64 * j + 1, 64 * j + 64)), bytes,
                 j + 1, k)

\* from state words st and joined = old buffer ++ data, update leaves st2
\* and buffer2
Consumed(st, joined, st2, buffer2) ==
    /\ st2 = Chunked(st, joined, 0, Len(joined) \div 64)
    /\ Len(buffer2) = Len(joined) % 64
    /\ buffer2 = SubSeq(joined, Len(joined) - Len(buffer2) + 1, Len(joined))
    /\ Len(joined) < 64 => st2 = st

\* C16: an update call that returns has applied _compress_block exactly
\* floor((b + n) / 64) times, to the consecutive 64-byte chunks of the old
\* buffer followed by the data, in order from the front, and left the other
\* (b + n) mod 64 bytes as the buffer; below 64 bytes the state words stay.
C16_UpdateConsumesBlocks ==
    [][ (lastOp' = "update" /\ ret' = None) =>
            Consumed(lists[state], buffer \o DataBytes(arg'), lists'[state'], buffer')
      ]_vars

\* 132 bytes given to an engine holding 4: two blocks compressed, 8 bytes left
C16_Witness ==
    /\ lastOp = "update" /\ ret = None /\ Len(arg.val) = 132
    /\ counter = 136 /\ Len(buffer) = 8

\* addition modulo 2^32 on the four big-endian bytes of two words: the carry
\* out of the last, of the third and of the second byte, then the sum
Carry4(x, y) == (x[4] + y[4]) \div 256
Carry3(x, y) == (x[3] + y[3] + Carry4(x, y)) \div 256
Carry2(x, y) == (x[2] + y[2] + Carry3(x, y)) \div 256
SumBytes(x, y) ==
    << (x[1] + y[1] + Carry2(x, y)) % 256, (x[2] + y[2] + Carry3(x, y)) % 256,
       (x[3] + y[3] + Carry4(x, y)) % 256, (x[4] + y[4]) % 256 >>
WordOf(b) == W(b[1] * 256 + b[2], b[3] * 256 + b[4])
AddMod32(x, y) == WordOf(SumBytes(ToBytes4(x), ToBytes4(y)))

\* the 16 big-endian words of a block
BigEndianWords(block) == [k \in 1..16 |-> WordOf(SubSeq(block, 4 * k - 3, 4 * k))] \o << >>

\* the 64-word schedule: w[i] = w[i-16] + s0(w[i-15]) + w[i-7] + s1(w[i-2])
\* modulo 2^32 for i in 16..63; w[i] is ws[i + 1]
RECURSIVE Expanded(_)
Expanded(ws) ==
    IF Len(ws) >= 64 THEN ws
    ELSE Expanded(Append(ws,
            AddMod32(AddMod32(AddMod32(ws[Len(ws) - 15], SmallSigma0(ws[Len(ws) - 14])),
                              ws[Len(ws) - 6]),
                     SmallSigma1(ws[Len(ws) - 1]))))

\* the round transform on v = <<a, .., h>> with schedule word w and round
\* constant k: t1 = h + S1(e) + ch(e, f, g) + k + w, t2 = S0(a) + maj(a, b, c),
\* then <<t1 + t2, a, b, c, d + t1, e, f, g>>, every sum modulo 2^32
Shifted(v, t1, t2) ==
    << AddMod32(t1, t2), v[1], v[2], v[3], AddMod32(v[4], t1), v[5], v[6], v[7] >>
RoundTransform(v, w, k) ==
    Shifted(v,
            AddMod32(AddMod32(AddMod32(AddMod32(v[8], BigSigma1(v[5])),
                                       Ch(v[5], v[6], v[7])), k), w),
            AddMod32(BigSigma0(v[1]), Maj(v[1], v[2], v[3])))

\* v after rounds i, .., 63, round i using K[i mod 16]
RECURSIVE Worked(_, _, _)
Worked(v, ws, i) ==
    IF i >= 64 \/ Len(v) # 8 THEN v
    ELSE Worked(RoundTransform(v, ws[i + 1], K[(i % 16) + 1]), ws, i + 1)

\* S'[j] = (S[j] + v[j]) mod 2^32
Summed(S, v) ==
    IF Len(v) # 8 THEN v ELSE [j \in 1..8 |-> AddMod32(S[j], v[j])] \o << >>
Compressed(S, block) == Summed(S, Worked(S, Expanded(BigEndianWords(block)), 0))

\* the block that the pass of digest's loop about to run hands to
\* _compress_block
BlockAt(f) == SubSeq(f.padded, f.i + 1, f.i + BLOCK_SIZE)

\* C17: a call of _compress_block on state S and a 64-byte block puts into
\* the same list S'[j] = (S[j] + v[j]) mod 2^32, v being S run through 64
\* rounds over the 64-word schedule of the block's 16 big-endian words with
\* round constant K[i mod 16] in round i; no other list changes, and the
\* buffer and the counter stay as they were.
C17_CompressBlock ==
    [][ (frame # << >> /\ frame' # << >> /\ frame'[1].i = frame[1].i + BLOCK_SIZE) =>
            /\ state' = state
            /\ DOMAIN lists' = DOMAIN lists
            /\ lists'[state] = Compressed(lists[state], BlockAt(frame[1]))
            /\ \A id \in DOMAIN lists \ {state} : lists'[id] = lists[id]
            /\ buffer' = buffer
            /\ counter' = counter
      ]_vars

\* the second padding block of a 124-byte message has been compressed
C17_Witness ==
    /\ frame # << >>
    /\ frame[1].pc = "loop" /\ frame[1].i = 128 /\ Len(frame[1].padded) = 128
    /\ counter = 124 /\ Len(buffer) = 60
    /\ lists[state] # lists["temp_state"]

\* C18: an update call that raises leaves the state words, the buffer and
\* the counter exactly as they were before the call.
C18_FailedUpdateLeavesEngine ==
    [][ (lastOp' = "update" /\ ret'.type = "raise") =>
            /\ lists'[state'] = lists[state]
            /\ buffer' = buffer
            /\ counter' = counter
      ]_vars
====
